---- MODULE Spec2Model ----
(***************************************************************************)
(* route-to-art command line layer (src/cli/route_to_art/main.py).         *)
(*                                                                         *)
(* The module models the commands of the CLI and the pure helpers they     *)
(* call: the three route validators and the validate command, the merging  *)
(* of configuration and CLI options, the parse, render and export stages   *)
(* of convert, the handle_command_errors wrapper, the get_config           *)
(* singleton, and the display formatters of the info command.              *)
(*                                                                         *)
(* Python values are modelled as follows.                                  *)
(*   Optional value : <<>> for None, <<v>> for a present value v.          *)
(*   list           : a sequence.                                          *)
(*   f-string       : a record holding the interpolated values.            *)
(***************************************************************************)
EXTENDS Integers, Sequences, FiniteSets, TLC

VARIABLES
    pc,                 \* position of the running command
    route_data,         \* what parser.parse() returns for the input file
    route,              \* the Route handed over by the parser
    ran,                \* validators that have returned
    segment_issues,     \* last result of validate_segments
    coordinate_issues,  \* last result of validate_coordinates
    timestamp_issues,   \* last result of validate_timestamps
    exit_status,        \* <<>> while running, <<code>> after sys.exit(code)
    config,             \* the configuration: config key -> value
    option_dict,        \* the CLI options: option name -> value
    options,            \* the dictionary get_effective_options returned
    parse_raises,       \* the exception RouteParser()/parse() raises, if any
    to_route_raises,    \* the exception parser.to_route() raises, if any
    raised,             \* the exception that left the command, if any
    visualizer,         \* the RouteVisualizer's route once it is created
    duration,           \* route.get_total_duration()
    elevation_stats,    \* route.get_elevation_stats()
    duration_text,      \* what format_duration returned
    elevation_text,     \* what format_elevation returned
    command_outcome,    \* how the command wrapped by handle_command_errors ends
    debug,              \* ctx.obj["debug"]
    echoed,             \* what the wrapper wrote with click.echo/click.secho
    wrapper_outcome,    \* how the wrapper ends, once it has
    output_ext,         \* the suffix of convert's output_file
    steps,              \* the calls convert has made after the parse stage
    failed,             \* the optional features whose call raised
    exported,           \* the formats of the files the exporter wrote
    _config,            \* the module's global _config
    instances,          \* the Config objects constructed so far
    calls               \* the get_config calls made: argument and result

vars == <<pc, route_data, route, ran, segment_issues, coordinate_issues, timestamp_issues,
          exit_status, config, option_dict, options, parse_raises, to_route_raises,
          raised, visualizer, duration, elevation_stats, duration_text,
          elevation_text, command_outcome, debug, echoed, wrapper_outcome,
          output_ext, steps, failed, exported, _config, instances, calls>>

\* The state of the handle_command_errors wrapper.
wrpVars == <<command_outcome, debug, echoed, wrapper_outcome>>

\* The state of the render and export stages of convert.
rndVars == <<output_ext, steps, failed, exported>>

\* The state of get_config.
cfgVars == <<_config, instances, calls>>

\* The state of the parse stage of convert, besides route_data and route.
cnvVars == <<parse_raises, to_route_raises, raised, visualizer>>

\* The state of the formatters of the info command.
fmtVars == <<duration, elevation_stats, duration_text, elevation_text>>

\* The state of the option merge.
optVars == <<config, option_dict, options>>

\* The state of the validators and of the validate command.
valVars == <<route_data, route, ran, segment_issues, coordinate_issues,
             timestamp_issues, exit_status>>

---------------------------------------------------------------------------
(* Bounds of the explored inputs.                                          *)

\* Largest number of points of an enumerated route, over all its segments.
MaxPoints == 3

\* Largest number of segments of an enumerated route.
MaxSegs == 2

---------------------------------------------------------------------------
(* Program constants.                                                      *)

\* abs(point.latitude) > 85.0
ExtremeLatitude == 85

\* len(segment.points) > 10000
LargeSegmentLimit == 10000

---------------------------------------------------------------------------
(* The route data model: GeoPoint, Segment, Route.                         *)

None == <<>>

Some(v) == <<v>>

\* Python truthiness of an Optional[datetime]: a datetime is always truthy.
Truthy(opt) == opt # None

\* Latitudes in whole degrees, on both sides of the +-85 threshold.
Latitudes == {-86, 85, 86}

\* Timestamps as instants on a discrete clock.
Timestamps == {1, 2}

GeoPoint(lat, ts) == [latitude |-> lat, timestamp |-> ts]

Points == {GeoPoint(lat, ts) : lat \in Latitudes,
                               ts \in {None} \cup {Some(t) : t \in Timestamps}}

\* Sum of the first n entries of a sequence of numbers.
RECURSIVE SumTo(_, _)
SumTo(lens, n) == IF n = 0 THEN 0 ELSE lens[n] + SumTo(lens, n - 1)

\* The route whose i-th segment is the next lens[i] points of flat.
Split(flat, lens) ==
    [i \in 1..Len(lens) |->
        SubSeq(flat, SumTo(lens, i - 1) + 1, SumTo(lens, i))]

\* Segment lengths of the enumerated routes: at most MaxSegs segments (empty
\* ones included) holding at most MaxPoints points in total.
RouteShapes ==
    UNION {{lens \in [1..k -> 0..MaxPoints] : SumTo(lens, k) <= MaxPoints}
           : k \in 0..MaxSegs}

\* r is a route of the given shape over the given points.
IsRouteOver(r, shapes, points) ==
    \E lens \in shapes :
        \E flat \in [1..SumTo(lens, Len(lens)) -> points] :
            r = Split(flat, lens)

\* A segment of n copies of one point.
ConstSegment(n, p) == [j \in 1..n |-> p]

\* A segment of n points whose timestamps strictly increase.
RampSegment(n, lat) == [j \in 1..n |-> GeoPoint(lat, Some(j))]

\* Single-segment routes at and just beyond the large-segment limit: one without
\* timestamps, one with strictly increasing timestamps.
LargeRoutes ==
    UNION {{<<ConstSegment(n, GeoPoint(ExtremeLatitude, None))>>,
            <<RampSegment(n, ExtremeLatitude)>>}
           : n \in {LargeSegmentLimit, LargeSegmentLimit + 1}}

\* r is one of the routes a parser may hand over.
IsRoute(r) == IsRouteOver(r, RouteShapes, Points) \/ r \in LargeRoutes

\* Route.get_total_points
RECURSIVE get_total_points(_)
get_total_points(r) ==
    IF r = << >> THEN 0 ELSE Len(Head(r)) + get_total_points(Tail(r))

---------------------------------------------------------------------------
(* Findings: the messages the validators append.                           *)

Finding(kind, seg, pt, val) ==
    [kind |-> kind, segment |-> seg, point |-> pt, value |-> val]

Abs(x) == IF x < 0 THEN -x ELSE x

\* [1, 2, ..., n]
Indices(n) == [j \in 1..n |-> j]

---------------------------------------------------------------------------
(* validate_coordinates                                                    *)

\* Mutant: the threshold itself counts as extreme.
IsExtremeInclusive(p) == Abs(p.latitude) >= ExtremeLatitude

\* Mutant: the sign of the latitude is not dropped.
IsExtremeNorthOnly(p) == p.latitude > ExtremeLatitude

\* abs(point.latitude) > 85.0
IsExtreme(p) == Abs(p.latitude) > ExtremeLatitude

\* The inner loop over the points of segment number i.
CoordinateIssuesOfSegment(i, points) ==
    LET Hit(j) == IsExtreme(points[j])
        js == SelectSeq(Indices(Len(points)), Hit)
    IN  [m \in 1..Len(js) |->
            Finding("extreme_latitude", i, js[m], points[js[m]].latitude)]

RECURSIVE CoordinateIssuesFrom(_, _)
CoordinateIssuesFrom(r, i) ==
    IF i > Len(r) THEN << >>
    ELSE CoordinateIssuesOfSegment(i, r[i]) \o CoordinateIssuesFrom(r, i + 1)

validate_coordinates(r) == CoordinateIssuesFrom(r, 1)

---------------------------------------------------------------------------
(* validate_segments                                                       *)

\* Mutant: a one-point segment passes.
TooFewPointsOffByOne(points) == Len(points) < 1

\* len(segment.points) < 2
TooFewPoints(points) == Len(points) < 2

\* len(segment.points) > 10000
TooManyPoints(points) == Len(points) > LargeSegmentLimit

\* The body of the loop for segment number i.
SegmentIssuesOfSegment(i, points) ==
    IF Len(points) = 0
    THEN <<Finding("no_points", i, 0, 0)>>
    ELSE (IF TooFewPoints(points)
          THEN <<Finding("single_point", i, 0, 0)>> ELSE << >>)
         \o
         (IF TooManyPoints(points)
          THEN <<Finding("large_segment", i, 0, Len(points))>> ELSE << >>)

RECURSIVE SegmentIssuesFrom(_, _)
SegmentIssuesFrom(r, i) ==
    IF i > Len(r) THEN << >>
    ELSE SegmentIssuesOfSegment(i, r[i]) \o SegmentIssuesFrom(r, i + 1)

validate_segments(r) ==
    IF Len(r) = 0
    THEN <<Finding("no_segments", 0, 0, 0)>>
    ELSE SegmentIssuesFrom(r, 1)

---------------------------------------------------------------------------
(* validate_timestamps                                                     *)

\* any(p.timestamp for p in segment.points)
has_timestamps(points) ==
    \E j \in 1..Len(points) : Truthy(points[j].timestamp)

\* Mutant: all() in place of any().
missing_timestamps_all(points) ==
    \A j \in 1..Len(points) : points[j].timestamp = None

\* any(p.timestamp is None for p in segment.points)
missing_timestamps(points) ==
    \E j \in 1..Len(points) : points[j].timestamp = None

\* The loop over j in range(1, len(points)) that breaks at the first descent.
OutOfOrderAt(points, j) ==
    LET curr == points[j].timestamp
        prev == points[j - 1].timestamp
    IN  Truthy(curr) /\ Truthy(prev) /\ curr[1] < prev[1]

timestamp_order_issues(points) ==
    \E j \in 2..Len(points) : OutOfOrderAt(points, j)

\* Mutant: only timestamped neighbours are compared.
duplicate_timestamps_adjacent(points) ==
    \E j \in 2..Len(points) :
        /\ Truthy(points[j].timestamp)
        /\ points[j].timestamp = points[j - 1].timestamp

\* len(set(timestamps)) < len(timestamps)
duplicate_timestamps(points) ==
    LET present == {j \in 1..Len(points) : Truthy(points[j].timestamp)}
        unique_timestamps == {points[j].timestamp[1] : j \in present}
    IN  Cardinality(unique_timestamps) < Cardinality(present)

\* The body of the loop for segment number i.
TimestampIssuesOfSegment(i, points) ==
    IF ~has_timestamps(points) THEN << >>
    ELSE (IF missing_timestamps(points)
          THEN <<Finding("inconsistent_timestamps", i, 0, 0)>> ELSE << >>)
         \o
         (IF timestamp_order_issues(points)
          THEN <<Finding("out_of_order_timestamps", i, 0, 0)>> ELSE << >>)
         \o
         (IF duplicate_timestamps(points)
          THEN <<Finding("duplicate_timestamps", i, 0, 0)>> ELSE << >>)

RECURSIVE TimestampIssuesFrom(_, _)
TimestampIssuesFrom(r, i) ==
    IF i > Len(r) THEN << >>
    ELSE TimestampIssuesOfSegment(i, r[i]) \o TimestampIssuesFrom(r, i + 1)

validate_timestamps(r) == TimestampIssuesFrom(r, 1)

---------------------------------------------------------------------------
(* The route after a validator returned. The validators read route.segments, *)
(* segment.points and the points' fields and assign none of them.            *)

\* Mutant: empty segments are dropped from the route while it is inspected.
RouteWithoutEmptySegments(r) ==
    LET HasPoints(points) == Len(points) > 0 IN SelectSeq(r, HasPoints)

RouteAfterValidateSegments(r) == r

RouteAfterValidateCoordinates(r) == r

RouteAfterValidateTimestamps(r) == r

---------------------------------------------------------------------------
(* Idle values of the state a command does not use.                        *)

OptionsIdle ==
    /\ config = << >>
    /\ option_dict = << >>
    /\ options = << >>

ConvertIdle ==
    /\ parse_raises = None
    /\ to_route_raises = None
    /\ raised = None
    /\ visualizer = None

FormatIdle ==
    /\ duration = None
    /\ elevation_stats = None
    /\ duration_text = None
    /\ elevation_text = None

ValidateIdle ==
    /\ route_data = None
    /\ route = << >>
    /\ ran = {}
    /\ segment_issues = << >>
    /\ coordinate_issues = << >>
    /\ timestamp_issues = << >>
    /\ exit_status = None

WrapperIdle ==
    /\ command_outcome = None
    /\ debug = FALSE
    /\ echoed = << >>
    /\ wrapper_outcome = None

RenderIdle ==
    /\ output_ext = ""
    /\ steps = << >>
    /\ failed = {}
    /\ exported = << >>

ConfigIdle ==
    /\ _config = None
    /\ instances = 0
    /\ calls = << >>

---------------------------------------------------------------------------
(* The validators called on a parsed route, in any order and repeatedly.   *)

InitValidators ==
    /\ pc = "validators"
    /\ IsRoute(route)
    /\ route_data = Some(route)
    /\ ran = {}
    /\ segment_issues = << >>
    /\ coordinate_issues = << >>
    /\ timestamp_issues = << >>
    /\ exit_status = None
    /\ OptionsIdle
    /\ ConvertIdle
    /\ FormatIdle
    /\ WrapperIdle
    /\ RenderIdle
    /\ ConfigIdle

CallValidateSegments ==
    /\ pc = "validators"
    /\ segment_issues' = validate_segments(route)
    /\ route' = RouteAfterValidateSegments(route)
    /\ ran' = ran \cup {"segments"}
    /\ UNCHANGED <<pc, route_data, coordinate_issues, timestamp_issues, exit_status>>
    /\ UNCHANGED <<optVars, cnvVars, fmtVars, wrpVars, rndVars, cfgVars>>

CallValidateCoordinates ==
    /\ pc = "validators"
    /\ coordinate_issues' = validate_coordinates(route)
    /\ route' = RouteAfterValidateCoordinates(route)
    /\ ran' = ran \cup {"coordinates"}
    /\ UNCHANGED <<pc, route_data, segment_issues, timestamp_issues, exit_status>>
    /\ UNCHANGED <<optVars, cnvVars, fmtVars, wrpVars, rndVars, cfgVars>>

CallValidateTimestamps ==
    /\ pc = "validators"
    /\ timestamp_issues' = validate_timestamps(route)
    /\ route' = RouteAfterValidateTimestamps(route)
    /\ ran' = ran \cup {"timestamps"}
    /\ UNCHANGED <<pc, route_data, segment_issues, coordinate_issues, exit_status>>
    /\ UNCHANGED <<optVars, cnvVars, fmtVars, wrpVars, rndVars, cfgVars>>

NextValidators ==
    \/ CallValidateSegments
    \/ CallValidateCoordinates
    \/ CallValidateTimestamps

SpecValidators == InitValidators /\ [][NextValidators]_vars

---------------------------------------------------------------------------
(* The validate command.                                                   *)

\* The input file either fails to parse (parse() returns nothing) or parses
\* into the data of a route.
InitValidate ==
    /\ pc = "validate"
    /\ \/ route_data = None
       \/ \E lens \in RouteShapes :
            \E flat \in [1..SumTo(lens, Len(lens)) -> Points] :
                route_data = Some(Split(flat, lens))
       \/ \E r \in LargeRoutes : route_data = Some(r)
    /\ route = << >>
    /\ ran = {}
    /\ segment_issues = << >>
    /\ coordinate_issues = << >>
    /\ timestamp_issues = << >>
    /\ exit_status = None
    /\ OptionsIdle
    /\ ConvertIdle
    /\ FormatIdle
    /\ WrapperIdle
    /\ RenderIdle
    /\ ConfigIdle

\* parser.parse() returned nothing: the error is shown and sys.exit(1).
ValidateParseFailed ==
    /\ pc = "validate"
    /\ route_data = None
    /\ pc' = "exited"
    /\ exit_status' = Some(1)
    /\ UNCHANGED <<route_data, route, ran, segment_issues, coordinate_issues,
                   timestamp_issues>>
    /\ UNCHANGED <<optVars, cnvVars, fmtVars, wrpVars, rndVars, cfgVars>>

\* route = parser.to_route(route_data)
ValidateToRoute ==
    /\ pc = "validate"
    /\ route_data # None
    /\ route' = route_data[1]
    /\ pc' = "validate_segments"
    /\ UNCHANGED <<route_data, ran, segment_issues, coordinate_issues,
                   timestamp_issues, exit_status>>
    /\ UNCHANGED <<optVars, cnvVars, fmtVars, wrpVars, rndVars, cfgVars>>

\* segment_issues = validate_segments(route)
ValidateRunSegments ==
    /\ pc = "validate_segments"
    /\ segment_issues' = validate_segments(route)
    /\ route' = RouteAfterValidateSegments(route)
    /\ ran' = ran \cup {"segments"}
    /\ pc' = "validate_coordinates"
    /\ UNCHANGED <<route_data, coordinate_issues, timestamp_issues, exit_status>>
    /\ UNCHANGED <<optVars, cnvVars, fmtVars, wrpVars, rndVars, cfgVars>>

\* coordinate_issues = validate_coordinates(route)
ValidateRunCoordinates ==
    /\ pc = "validate_coordinates"
    /\ coordinate_issues' = validate_coordinates(route)
    /\ route' = RouteAfterValidateCoordinates(route)
    /\ ran' = ran \cup {"coordinates"}
    /\ pc' = "validate_timestamps"
    /\ UNCHANGED <<route_data, segment_issues, timestamp_issues, exit_status>>
    /\ UNCHANGED <<optVars, cnvVars, fmtVars, wrpVars, rndVars, cfgVars>>

\* timestamp_issues = validate_timestamps(route)
ValidateRunTimestamps ==
    /\ pc = "validate_timestamps"
    /\ timestamp_issues' = validate_timestamps(route)
    /\ route' = RouteAfterValidateTimestamps(route)
    /\ ran' = ran \cup {"timestamps"}
    /\ pc' = "validate_report"
    /\ UNCHANGED <<route_data, segment_issues, coordinate_issues, exit_status>>
    /\ UNCHANGED <<optVars, cnvVars, fmtVars, wrpVars, rndVars, cfgVars>>

\* Mutant: the timestamp findings are left out of the verdict.
ValidateStatusIgnoringTimestamps(seg, coord, ts) ==
    IF seg \o coord = << >> THEN 0 ELSE 1

\* all_issues = segment_issues + coordinate_issues + timestamp_issues;
\* sys.exit(0) if not all_issues, sys.exit(1) otherwise.
ValidateStatus(seg, coord, ts) ==
    IF seg \o coord \o ts = << >> THEN 0 ELSE 1

ValidateReport ==
    /\ pc = "validate_report"
    /\ exit_status' =
            Some(ValidateStatus(segment_issues, coordinate_issues, timestamp_issues))
    /\ pc' = "exited"
    /\ UNCHANGED <<route_data, route, ran, segment_issues, coordinate_issues,
                   timestamp_issues>>
    /\ UNCHANGED <<optVars, cnvVars, fmtVars, wrpVars, rndVars, cfgVars>>

NextValidate ==
    \/ ValidateParseFailed
    \/ ValidateToRoute
    \/ ValidateRunSegments
    \/ ValidateRunCoordinates
    \/ ValidateRunTimestamps
    \/ ValidateReport

SpecValidate == InitValidate /\ [][NextValidate]_vars

---------------------------------------------------------------------------
(* Python values held by the configuration and the option dictionaries.    *)
(* A string is the sequence of its pieces, a list the sequence of its      *)
(* items; the tag keeps the two apart.                                     *)

PyNone == [t |-> "None", v |-> << >>]

PyBool(b) == [t |-> "bool", v |-> <<IF b THEN "True" ELSE "False">>]

PyStr(pieces) == [t |-> "str", v |-> pieces]

PyList(items) == [t |-> "list", v |-> items]

\* bool(value)
PyTruthy(value) ==
    /\ value # PyNone
    /\ value # PyBool(FALSE)
    /\ value.v # << >>

\* sep.join(items) for a list of strings: the items with sep between them.
RECURSIVE JoinPieces(_, _)
JoinPieces(sep, items) ==
    IF Len(items) = 0 THEN << >>
    ELSE IF Len(items) = 1 THEN <<items[1]>>
    ELSE <<items[1], sep>> \o JoinPieces(sep, Tail(items))

Join(sep, list) == PyStr(JoinPieces(sep, list.v))

\* A dictionary is a function on its keys.
EmptyDict == << >>

Put(d, k, value) ==
    [x \in DOMAIN d \cup {k} |-> IF x = k THEN value ELSE d[x]]

---------------------------------------------------------------------------
(* get_effective_options                                                   *)

\* config_to_cli, in insertion order: <<config key, CLI option name>>, the
\* option name None for the keys that are not mapped.
config_to_cli == <<
    <<"thickness", Some("thickness")>>,
    <<"color", Some("color")>>,
    <<"style", Some("style")>>,
    <<"markers.enabled", Some("markers")>>,
    <<"markers.unit", Some("markers_unit")>>,
    <<"markers.interval", Some("marker_interval")>>,
    <<"markers.size", Some("marker_size")>>,
    <<"markers.color", Some("marker_color")>>,
    <<"markers.label_font_size", Some("label_font_size")>>,
    <<"overlay.enabled", Some("overlay")>>,
    <<"overlay.position", Some("overlay_position")>>,
    <<"overlay.font_size", Some("font_size")>>,
    <<"overlay.font_color", Some("font_color")>>,
    <<"overlay.background", Some("background")>>,
    <<"overlay.bg_color", Some("bg_color")>>,
    <<"overlay.bg_alpha", Some("bg_alpha")>>,
    <<"export.formats", Some("formats")>>,
    <<"export.width", None>>,
    <<"export.height", None>>,
    <<"export.dpi", Some("dpi")>>,
    <<"export.page_size", Some("page_size")>>
>>

ConfigKeys == {config_to_cli[n][1] : n \in 1..Len(config_to_cli)}

\* The keys of the option dictionary convert builds.
CliKeys == {"color", "thickness", "style", "dpi", "formats", "page_size",
            "markers", "markers_unit", "marker_interval", "marker_size",
            "marker_color", "label_font_size", "overlay", "overlay_position",
            "font_size", "font_color", "background", "bg_color", "bg_alpha"}

\* config.get("defaults.<key>"): the value, None when the key is not set.
ConfigGet(cfg, key) == IF key \in DOMAIN cfg THEN cfg[key] ELSE PyNone

\* defaults.get("markers", {}).get("enabled", False)
DefaultsMarkersEnabled(cfg) ==
    IF "markers.enabled" \in DOMAIN cfg THEN cfg["markers.enabled"]
    ELSE PyBool(FALSE)

\* "Handle markers enabled special case"
MarkersSpecialCase(cfg, opts) ==
    IF "markers" \in DOMAIN opts /\ opts["markers"] = PyBool(FALSE)
    THEN Put(EmptyDict, "markers", PyBool(FALSE))
    ELSE IF PyTruthy(DefaultsMarkersEnabled(cfg))
    THEN Put(EmptyDict, "markers", PyBool(TRUE))
    ELSE EmptyDict

\* One pass of the loop over config_to_cli.items().
FillFromConfigEntry(result, cfg, opts, config_key, cli_key) ==
    IF cli_key = None THEN result
    ELSE IF cli_key[1] \in DOMAIN opts /\ opts[cli_key[1]] # PyNone THEN result
    ELSE IF /\ config_key = "overlay.enabled"
            /\ "overlay" \in DOMAIN opts
            /\ opts["overlay"] # PyNone
    THEN result
    ELSE LET value == ConfigGet(cfg, config_key)
         IN  IF value = PyNone THEN result
             ELSE IF config_key = "overlay.fields" /\ PyTruthy(value)
             THEN Put(result, "overlay", Join(",", value))
             ELSE IF config_key = "export.formats" /\ PyTruthy(value)
             THEN Put(result, "formats", Join(",", value))
             ELSE Put(result, cli_key[1], value)

\* The loop over config_to_cli.items(), from entry n on.
RECURSIVE FillFromConfig(_, _, _, _)
FillFromConfig(result, cfg, opts, n) ==
    IF n > Len(config_to_cli) THEN result
    ELSE FillFromConfig(
            FillFromConfigEntry(result, cfg, opts,
                                config_to_cli[n][1], config_to_cli[n][2]),
            cfg, opts, n + 1)

\* Mutant: the loop that overrides with the CLI options is left out.
OverrideWithCliSkipped(result, opts) == result

\* "Override with CLI options (non-None values only)"
OverrideWithCli(result, opts) ==
    [k \in DOMAIN result \cup {x \in DOMAIN opts : opts[x] # PyNone} |->
        IF k \in DOMAIN opts /\ opts[k] # PyNone THEN opts[k] ELSE result[k]]

get_effective_options(cfg, opts) ==
    OverrideWithCli(
        FillFromConfig(MarkersSpecialCase(cfg, opts), cfg, opts, 1), opts)

---------------------------------------------------------------------------
(* get_effective_options applied to a configuration and a set of CLI       *)
(* options.                                                                *)

\* Largest number of values set in the configuration and on the command
\* line together.
MaxSet == 2

\* The sets of exactly n elements of S.
SetsOfSize(S, n) ==
    {K \in {{f[i] : i \in 1..n} : f \in [1..n -> S]} : Cardinality(K) = n}

\* Values a configuration file may hold under a key.
ConfigValues(key) ==
    IF key = "export.formats"
    THEN {PyList(<< >>), PyList(<<"png">>), PyList(<<"png", "svg">>)}
    ELSE IF key \in {"markers.enabled", "overlay.enabled", "overlay.background"}
    THEN {PyBool(FALSE), PyBool(TRUE)}
    ELSE {PyStr(<<"from-config">>)}

AllConfigValues == UNION {ConfigValues(key) : key \in ConfigKeys}

\* Values click passes for an option that was given.
CliValues(key) ==
    IF key \in {"markers", "background"}
    THEN {PyBool(FALSE), PyBool(TRUE)}
    ELSE {PyStr(<<"from-cli">>)}

AllCliValues == UNION {CliValues(key) : key \in CliKeys}

\* The option dictionary convert builds: every key, None where not given.
OptionDictOf(given) ==
    [k \in CliKeys |-> IF k \in DOMAIN given THEN given[k] ELSE PyNone]

InitOptions ==
    /\ pc = "options"
    /\ \E nc \in 0..MaxSet :
        \E ng \in 0..(MaxSet - nc) :
            \E kc \in SetsOfSize(CliKeys, nc), kg \in SetsOfSize(ConfigKeys, ng) :
                \E given \in [kc -> AllCliValues], cfg \in [kg -> AllConfigValues] :
                    /\ \A k \in kc : given[k] \in CliValues(k)
                    /\ \A k \in kg : cfg[k] \in ConfigValues(k)
                    /\ option_dict = OptionDictOf(given)
                    /\ config = cfg
    /\ options = EmptyDict
    /\ ValidateIdle
    /\ ConvertIdle
    /\ FormatIdle
    /\ WrapperIdle
    /\ RenderIdle
    /\ ConfigIdle

\* options = get_effective_options(ctx.obj.get("config_path"), {...})
GetEffectiveOptions ==
    /\ pc = "options"
    /\ options' = get_effective_options(config, option_dict)
    /\ pc' = "options_done"
    /\ UNCHANGED <<config, option_dict>>
    /\ UNCHANGED <<valVars, cnvVars, fmtVars, wrpVars, rndVars, cfgVars>>

NextOptions == GetEffectiveOptions

SpecOptions == InitOptions /\ [][NextOptions]_vars

---------------------------------------------------------------------------
(* Exceptions.                                                             *)

\* An exception: its class, the factory that built it (for RouteParseError)
\* and the exception it wraps, if any.
Exception(type, kind, original) ==
    [type |-> type, kind |-> kind, original |-> original]

\* The classes derived from RouteArtError.
RouteArtErrorTypes ==
    {"RouteArtError", "RouteParseError", "ValidationError", "RenderingError"}

\* isinstance(e, RouteArtError)
IsRouteArtError(e) == e.type \in RouteArtErrorTypes

\* RouteParseError.invalid_route_file(msg, file_path=..., original_error=...)
InvalidRouteFile(original) ==
    Exception("RouteParseError", "invalid_route_file", original)

\* RouteParseError.missing_track(file_path=...)
MissingTrack == Exception("RouteParseError", "missing_track", None)

\* RouteParseError.no_coordinates(file_path=...)
NoCoordinates == Exception("RouteParseError", "no_coordinates", None)

\* What the parser itself may raise: errors of the application and others.
ParserExceptions ==
    {Exception("RouteParseError", "parser", None),
     Exception("ValidationError", "parser", None),
     Exception("OSError", "parser", None),
     Exception("ValueError", "parser", None)}

---------------------------------------------------------------------------
(* convert: the parse stage, up to the creation of the visualizer.         *)

\* Mutant: every exception of the parse stage is wrapped.
ParseExceptWrapAll(e) == InvalidRouteFile(Some(e.type))

\* The except clause of the parse stage: what leaves convert when e was
\* raised inside the try block.
ParseExcept(e) ==
    IF ~IsRouteArtError(e) THEN InvalidRouteFile(Some(e.type)) ELSE e

\* The points of the routes convert is run on: convert reads only how many
\* segments and points the route has.
ConvertPoints ==
    {GeoPoint(ExtremeLatitude, None), GeoPoint(ExtremeLatitude, Some(1))}

InitConvert ==
    /\ pc = "convert_parse"
    /\ \/ /\ parse_raises \in {Some(e) : e \in ParserExceptions}
          /\ route_data = None
          /\ to_route_raises = None
       \/ /\ parse_raises = None
          /\ route_data = None
          /\ to_route_raises = None
       \/ /\ parse_raises = None
          /\ \E lens \in RouteShapes :
                \E flat \in [1..SumTo(lens, Len(lens)) -> ConvertPoints] :
                    route_data = Some(Split(flat, lens))
          /\ to_route_raises \in {None} \cup {Some(e) : e \in ParserExceptions}
    /\ route = << >>
    /\ raised = None
    /\ visualizer = None
    /\ ran = {}
    /\ segment_issues = << >>
    /\ coordinate_issues = << >>
    /\ timestamp_issues = << >>
    /\ exit_status = None
    /\ OptionsIdle
    /\ FormatIdle
    /\ WrapperIdle
    /\ RenderIdle
    /\ ConfigIdle

\* parser = RouteParser(input_file); route_data = parser.parse();
\* if not route_data: raise RouteParseError.invalid_route_file(...)
ConvertParse ==
    /\ pc = "convert_parse"
    /\ IF parse_raises # None
       THEN /\ raised' = Some(ParseExcept(parse_raises[1]))
            /\ pc' = "convert_raised"
       ELSE IF route_data = None
       THEN /\ raised' = Some(ParseExcept(InvalidRouteFile(None)))
            /\ pc' = "convert_raised"
       ELSE /\ raised' = raised
            /\ pc' = "convert_to_route"
    /\ UNCHANGED <<route_data, route, ran, segment_issues, coordinate_issues,
                   timestamp_issues, exit_status, parse_raises, to_route_raises,
                   visualizer>>
    /\ UNCHANGED <<optVars, fmtVars, wrpVars, rndVars, cfgVars>>

\* route = parser.to_route(route_data); the checks of route.segments and of
\* route.get_total_points().
ConvertToRoute ==
    /\ pc = "convert_to_route"
    /\ IF to_route_raises # None
       THEN /\ raised' = Some(ParseExcept(to_route_raises[1]))
            /\ route' = route
            /\ pc' = "convert_raised"
       ELSE /\ route' = route_data[1]
            /\ IF Len(route') = 0
               THEN /\ raised' = Some(ParseExcept(MissingTrack))
                    /\ pc' = "convert_raised"
               ELSE IF get_total_points(route') = 0
               THEN /\ raised' = Some(ParseExcept(NoCoordinates))
                    /\ pc' = "convert_raised"
               ELSE /\ raised' = raised
                    /\ pc' = "convert_render"
    /\ UNCHANGED <<route_data, ran, segment_issues, coordinate_issues,
                   timestamp_issues, exit_status, parse_raises, to_route_raises,
                   visualizer>>
    /\ UNCHANGED <<optVars, fmtVars, wrpVars, rndVars, cfgVars>>

\* visualizer = RouteVisualizer(route)
ConvertCreateVisualizer ==
    /\ pc = "convert_render"
    /\ visualizer' = Some(route)
    /\ pc' = "convert_rendering"
    /\ UNCHANGED <<route_data, route, ran, segment_issues, coordinate_issues,
                   timestamp_issues, exit_status, parse_raises, to_route_raises,
                   raised>>
    /\ UNCHANGED <<optVars, fmtVars, wrpVars, rndVars, cfgVars>>

NextConvert ==
    \/ ConvertParse
    \/ ConvertToRoute
    \/ ConvertCreateVisualizer

SpecConvert == InitConvert /\ [][NextConvert]_vars

---------------------------------------------------------------------------
(* info: format_duration and format_elevation.                             *)

\* Largest number of whole days of an enumerated duration.
MaxDays == 2

SecondsPerHour == 3600

SecondsPerMinute == 60

\* A timedelta in normal form: days, seconds of the day, microseconds.
Timedelta(days, seconds, microseconds) ==
    [days |-> days, seconds |-> seconds, microseconds |-> microseconds]

\* bool(timedelta): false exactly for timedelta(0).
TimedeltaTruthy(d) == d.days # 0 \/ d.seconds # 0 \/ d.microseconds # 0

\* Seconds of the day around the unit boundaries.
SecondsSamples == {0, 1, 59, 60, 3600, 3661, 86399}

Durations ==
    {Timedelta(d, sec, us) : d \in 0..MaxDays, sec \in SecondsSamples,
                             us \in {0, 1}}

\* f"{n} {unit}{'s' if n != 1 else ''}"
DurationPart(n, unit) ==
    <<ToString(n), " ", unit>> \o (IF n # 1 THEN <<"s">> ELSE << >>)

\* ", ".join(parts) for parts that are themselves sequences of pieces.
RECURSIVE JoinParts(_, _)
JoinParts(sep, parts) ==
    IF Len(parts) = 0 THEN << >>
    ELSE IF Len(parts) = 1 THEN parts[1]
    ELSE parts[1] \o <<sep>> \o JoinParts(sep, Tail(parts))

\* The parts format_duration collects for a duration that passed its test.
DurationParts(d) ==
    LET days == d.days
        hours == d.seconds \div SecondsPerHour
        remainder == d.seconds % SecondsPerHour
        minutes == remainder \div SecondsPerMinute
        seconds == remainder % SecondsPerMinute
    IN  (IF days # 0 THEN <<DurationPart(days, "day")>> ELSE << >>)
        \o (IF hours # 0 THEN <<DurationPart(hours, "hour")>> ELSE << >>)
        \o (IF minutes # 0 THEN <<DurationPart(minutes, "minute")>> ELSE << >>)
        \o (IF seconds # 0 /\ ~(days # 0 \/ hours # 0)
            THEN <<DurationPart(seconds, "second")>> ELSE << >>)

\* format_duration: the text as the sequence of its pieces.
format_duration(d) ==
    IF d = None \/ ~TimedeltaTruthy(d[1])
    THEN <<"Unknown">>
    ELSE JoinParts(", ", DurationParts(d[1]))

\* f"{x:.1f}" for x given in tenths.
OneDecimal(tenths) ==
    (IF tenths < 0 THEN <<"-">> ELSE << >>)
    \o <<ToString(Abs(tenths) \div 10), ".", ToString(Abs(tenths) % 10)>>

\* Elevation statistics, in tenths of a metre.
ElevationStats ==
    {[min |-> 0, max |-> 0, gain |-> 0, loss |-> 0],
     [min |-> -15, max |-> 1204, gain |-> 1300, loss |-> 81]}

\* format_elevation: the text as the sequence of its pieces.
format_elevation(stats) ==
    IF stats = None
    THEN <<"No elevation data available">>
    ELSE <<"Min: ">> \o OneDecimal(stats[1].min)
         \o <<"m, Max: ">> \o OneDecimal(stats[1].max)
         \o <<"m, Gain: ">> \o OneDecimal(stats[1].gain)
         \o <<"m, Loss: ">> \o OneDecimal(stats[1].loss) \o <<"m">>

InitInfo ==
    /\ pc = "info_duration"
    /\ duration \in {None} \cup {Some(d) : d \in Durations}
    /\ elevation_stats \in {None} \cup {Some(st) : st \in ElevationStats}
    /\ duration_text = None
    /\ elevation_text = None
    /\ ValidateIdle
    /\ OptionsIdle
    /\ ConvertIdle
    /\ WrapperIdle
    /\ RenderIdle
    /\ ConfigIdle

\* click.echo(f"Duration: {format_duration(duration)}")
InfoFormatDuration ==
    /\ pc = "info_duration"
    /\ duration_text' = Some(format_duration(duration))
    /\ pc' = "info_elevation"
    /\ UNCHANGED <<duration, elevation_stats, elevation_text>>
    /\ UNCHANGED <<valVars, optVars, cnvVars, wrpVars, rndVars, cfgVars>>

\* click.echo(format_elevation(elevation_stats))
InfoFormatElevation ==
    /\ pc = "info_elevation"
    /\ elevation_text' = Some(format_elevation(elevation_stats))
    /\ pc' = "info_done"
    /\ UNCHANGED <<duration, elevation_stats, duration_text>>
    /\ UNCHANGED <<valVars, optVars, cnvVars, wrpVars, rndVars, cfgVars>>

NextInfo ==
    \/ InfoFormatDuration
    \/ InfoFormatElevation

SpecInfo == InitInfo /\ [][NextInfo]_vars

---------------------------------------------------------------------------
(* handle_command_errors: the wrapper around a command.                    *)

\* How a call ends: it returns a value (None, or <<n>> for the integer n),
\* or an exception leaves it; suggestion tells whether e.suggestion is set.
Returns(value) ==
    [kind |-> "returns", value |-> value, exc |-> None, suggestion |-> FALSE]

Raises(e, suggestion) ==
    [kind |-> "raises", value |-> None, exc |-> Some(e),
     suggestion |-> suggestion]

\* The classes that derive from BaseException but not from Exception.
BaseExceptionOnly == {"SystemExit", "KeyboardInterrupt"}

\* isinstance(e, Exception)
IsException(e) == e.type \notin BaseExceptionOnly

\* The except clause of the wrapper that takes e, the first that matches;
\* "none" when no clause matches.
HandlerOf(e) ==
    IF IsRouteArtError(e) THEN "RouteArtError"
    ELSE IF e.type = "ExportError" THEN "ExportError"
    ELSE IF e.type = "ConfigError" THEN "ConfigError"
    ELSE IF IsException(e) THEN "Exception"
    ELSE "none"

\* What the except clauses write for the terminal.
WrapperEchoes(outcome, dbg) ==
    LET handler == HandlerOf(outcome.exc[1])
    IN  IF handler = "RouteArtError"
        THEN <<"str(e)">> \o
             (IF outcome.suggestion THEN <<"Suggestion: ">> ELSE << >>)
        ELSE IF handler = "ExportError" THEN <<"Error: ">>
        ELSE IF handler = "ConfigError" THEN <<"Configuration error: ">>
        ELSE IF handler = "Exception"
        THEN <<"Unexpected error: ",
               "This error has been logged. Please report this issue.">> \o
             (IF dbg THEN <<"Traceback:", "traceback.format_exc()">>
              ELSE << >>)
        ELSE << >>

\* Mutant: the clause for unexpected exceptions raises the exception again.
wrapperReraisingUnexpected(outcome) ==
    IF outcome.kind = "returns" THEN outcome
    ELSE IF HandlerOf(outcome.exc[1]) \in {"none", "Exception"} THEN outcome
    ELSE Returns(Some(1))

\* wrapper(*args, **kwargs): how the wrapper ends when the wrapped command
\* ends with outcome.
wrapper(outcome) ==
    IF outcome.kind = "returns" THEN outcome
    ELSE IF HandlerOf(outcome.exc[1]) = "none" THEN outcome
    ELSE Returns(Some(1))

\* The values a command may return.
ReturnValues == {None, Some(0), Some(1)}

\* The classes of the exceptions a command may raise.
CommandExceptionTypes ==
    RouteArtErrorTypes \cup
    {"ExportError", "ConfigError", "ValueError", "NameError",
     "AttributeError", "KeyError"} \cup BaseExceptionOnly

\* The ways a wrapped command may end.
CommandOutcomes ==
    {Returns(v) : v \in ReturnValues} \cup
    {Raises(Exception(t, "command", None), s) :
        t \in CommandExceptionTypes, s \in BOOLEAN}

InitWrapper ==
    /\ pc = "wrapper_call"
    /\ \E o \in CommandOutcomes :
        /\ o.suggestion => IsRouteArtError(o.exc[1])
        /\ command_outcome = Some(o)
    /\ debug \in BOOLEAN
    /\ echoed = << >>
    /\ wrapper_outcome = None
    /\ ValidateIdle
    /\ OptionsIdle
    /\ ConvertIdle
    /\ FormatIdle
    /\ RenderIdle
    /\ ConfigIdle

\* try: f(*args, **kwargs)
WrapperCall ==
    /\ pc = "wrapper_call"
    /\ pc' = IF command_outcome[1].kind = "returns"
             THEN "wrapper_returning" ELSE "wrapper_except"
    /\ UNCHANGED <<valVars, optVars, cnvVars, fmtVars, wrpVars, rndVars,
                   cfgVars>>

\* return f(*args, **kwargs)
WrapperReturn ==
    /\ pc = "wrapper_returning"
    /\ wrapper_outcome' = Some(wrapper(command_outcome[1]))
    /\ pc' = "wrapper_done"
    /\ UNCHANGED <<command_outcome, debug, echoed>>
    /\ UNCHANGED <<valVars, optVars, cnvVars, fmtVars, rndVars, cfgVars>>

\* The except clauses.
WrapperExcept ==
    /\ pc = "wrapper_except"
    /\ echoed' = echoed \o WrapperEchoes(command_outcome[1], debug)
    /\ wrapper_outcome' = Some(wrapper(command_outcome[1]))
    /\ pc' = IF wrapper_outcome'[1].kind = "returns"
             THEN "wrapper_done" ELSE "wrapper_propagated"
    /\ UNCHANGED <<command_outcome, debug>>
    /\ UNCHANGED <<valVars, optVars, cnvVars, fmtVars, rndVars, cfgVars>>

NextWrapper ==
    \/ WrapperCall
    \/ WrapperReturn
    \/ WrapperExcept

SpecWrapper == InitWrapper /\ [][NextWrapper]_vars

---------------------------------------------------------------------------
(* convert: the render and export stages, and the summary that follows.    *)

\* The names the import statements of the module bind.
ImportedNames ==
    {"click", "os", "sys", "functools", "timedelta", "version", "Path",
     "Dict", "List", "Any", "Optional", "Callable", "TypeVar", "cast",
     "Config", "RouteArtError", "RouteParseError", "ValidationError",
     "RenderingError", "ExportError", "ConfigError", "Exporter",
     "configure_for_cli", "log_info", "log_debug", "log_error",
     "log_exception", "log_warning", "log_route_art_error", "Route",
     "RouteParser", "RouteVisualizer"}

\* Whether looking up a global name of a class succeeds; when it does not,
\* NameError is raised.
NameResolves(name) == name \in ImportedNames

\* options.get(key)
OptionsGet(opts, key) == IF key \in DOMAIN opts THEN opts[key] ELSE PyNone

\* [f.strip() for f in text.split(',')]
SplitPieces(text) == SelectSeq(text.v, LAMBDA piece : piece # ",")

\* What the visualizer may raise.
VisualizerExceptions ==
    {Exception("ValueError", "visualizer", None),
     Exception("RenderingError", "visualizer", None)}

\* The outcomes of a call of the visualizer: None when it returns.
VisualizerOutcomes == {None} \cup {Some(e) : e \in VisualizerExceptions}

\* What the exporter raises when it cannot export.
ExporterError == Exception("ExportError", "exporter", None)

\* The outcomes of a call of the exporter: None when it returns.
ExporterOutcomes == {None, Some(ExporterError)}

\* sys.exit(1)
SystemExit == Exception("SystemExit", "sys.exit", None)

\* The suffixes exporter.get_format knows, and the format of each.
SupportedExtensions == {".png", ".svg", ".pdf"}

FormatOfExtension(ext) ==
    IF ext = ".png" THEN "PNG" ELSE IF ext = ".svg" THEN "SVG" ELSE "PDF"

\* The suffixes of the output files convert is run on.
OutputExtensions == SupportedExtensions \cup {".txt"}

\* The except clause of the render stage: raise RenderingError(...)
RenderExcept(e) == Exception("RenderingError", "convert", Some(e.type))

\* Mutant: the except clause around add_distance_markers raises again.
MarkersExceptReraising(e) == Some(e)

\* The except clause around add_distance_markers: what leaves the inner
\* try statement when e was raised, None when nothing does.
MarkersExcept(e) == None

\* The except clause around the overlay.
OverlayExcept(e) == None

\* The routes the render stage is run on: it hands the route on unread.
RenderRoutes == {<<<<p>>>> : p \in ConvertPoints}

\* The CLI options the render and export stages read.
RenderCliValues(key) ==
    IF key = "markers" THEN {PyBool(FALSE), PyBool(TRUE)}
    ELSE IF key = "overlay" THEN {PyStr(<<"distance", ",", "name">>)}
    ELSE IF key = "formats"
    THEN {PyStr(<<"png">>), PyStr(<<"png", ",", "svg">>)}
    ELSE {PyStr(<<"#ff0000">>)}

RenderCliKeys == {"markers", "overlay", "formats", "color"}

RenderConfigKeys == {"markers.enabled", "overlay.enabled"}

\* The state after the parse stage found a route with a point; options was
\* computed at the start of convert.
InitRender ==
    /\ pc = "convert_render"
    /\ route \in RenderRoutes
    /\ route_data = Some(route)
    /\ ran = {}
    /\ segment_issues = << >>
    /\ coordinate_issues = << >>
    /\ timestamp_issues = << >>
    /\ exit_status = None
    /\ ConvertIdle
    /\ \E kc \in SUBSET RenderCliKeys, kg \in SUBSET RenderConfigKeys :
        \E given \in [kc -> UNION {RenderCliValues(k) : k \in RenderCliKeys}],
           cfg \in [kg -> {PyBool(TRUE)}] :
            /\ \A k \in kc : given[k] \in RenderCliValues(k)
            /\ option_dict = OptionDictOf(given)
            /\ config = cfg
            /\ options = get_effective_options(cfg, OptionDictOf(given))
    /\ output_ext \in OutputExtensions
    /\ steps = << >>
    /\ failed = {}
    /\ exported = << >>
    /\ command_outcome = None
    /\ debug \in BOOLEAN
    /\ echoed = << >>
    /\ wrapper_outcome = None
    /\ FormatIdle
    /\ ConfigIdle

\* What no step of the render and export stages changes.
rndFrame == <<route_data, route, ran, segment_issues, coordinate_issues,
              timestamp_issues, parse_raises, to_route_raises, optVars,
              fmtVars, cfgVars, debug, echoed, wrapper_outcome, output_ext>>

\* convert goes on with the step at position next.
ConvertContinues(next) ==
    /\ pc' = next
    /\ UNCHANGED <<raised, command_outcome, exit_status>>

\* The exception e leaves convert and reaches the wrapper.
ConvertLeaves(e) ==
    /\ raised' = Some(e)
    /\ command_outcome' = Some(Raises(e, FALSE))
    /\ exit_status' = IF e = SystemExit THEN Some(1) ELSE exit_status
    /\ pc' = "wrapper_except"

\* visualizer = RouteVisualizer(route) raises.
ConvertVisualizerRaises ==
    /\ pc = "convert_render"
    /\ \E e \in VisualizerExceptions : ConvertLeaves(RenderExcept(e))
    /\ UNCHANGED <<visualizer, steps, failed, exported>>
    /\ UNCHANGED rndFrame

\* visualizer.create_figure()
ConvertCreateFigure ==
    /\ pc = "convert_rendering"
    /\ steps' = Append(steps, "create_figure")
    /\ \E r \in VisualizerOutcomes :
        IF r = None THEN ConvertContinues("convert_render_route")
        ELSE ConvertLeaves(RenderExcept(r[1]))
    /\ UNCHANGED <<visualizer, failed, exported>>
    /\ UNCHANGED rndFrame

\* visualizer.render_route(...)
ConvertRenderRoute ==
    /\ pc = "convert_render_route"
    /\ steps' = Append(steps, "render_route")
    /\ \E r \in VisualizerOutcomes :
        IF r = None THEN ConvertContinues("convert_markers")
        ELSE ConvertLeaves(RenderExcept(r[1]))
    /\ UNCHANGED <<visualizer, failed, exported>>
    /\ UNCHANGED rndFrame

\* if options.get("markers"): try: visualizer.add_distance_markers(...)
ConvertMarkers ==
    /\ pc = "convert_markers"
    /\ IF PyTruthy(OptionsGet(options, "markers"))
       THEN /\ steps' = Append(steps, "add_distance_markers")
            /\ \E r \in VisualizerOutcomes :
                IF r = None
                THEN /\ failed' = failed
                     /\ ConvertContinues("convert_overlay")
                ELSE /\ failed' = failed \cup {"markers"}
                     /\ IF MarkersExcept(r[1]) = None
                        THEN ConvertContinues("convert_overlay")
                        ELSE ConvertLeaves(RenderExcept(MarkersExcept(r[1])[1]))
       ELSE /\ steps' = steps
            /\ failed' = failed
            /\ ConvertContinues("convert_overlay")
    /\ UNCHANGED <<visualizer, exported>>
    /\ UNCHANGED rndFrame

\* if options.get("overlay"): try: overlay_fields = [... .split(',')];
\* visualizer.add_overlay(...). A value that is not a string has no split.
ConvertOverlay ==
    /\ pc = "convert_overlay"
    /\ IF ~PyTruthy(OptionsGet(options, "overlay"))
       THEN /\ steps' = steps
            /\ failed' = failed
            /\ ConvertContinues("convert_export")
       ELSE IF OptionsGet(options, "overlay").t # "str"
       THEN /\ steps' = steps
            /\ failed' = failed \cup {"overlay"}
            /\ LET e == Exception("AttributeError", "split", None)
               IN  IF OverlayExcept(e) = None
                   THEN ConvertContinues("convert_export")
                   ELSE ConvertLeaves(RenderExcept(OverlayExcept(e)[1]))
       ELSE /\ steps' = Append(steps, "add_overlay")
            /\ \E r \in VisualizerOutcomes :
                IF r = None
                THEN /\ failed' = failed
                     /\ ConvertContinues("convert_export")
                ELSE /\ failed' = failed \cup {"overlay"}
                     /\ IF OverlayExcept(r[1]) = None
                        THEN ConvertContinues("convert_export")
                        ELSE ConvertLeaves(RenderExcept(OverlayExcept(r[1])[1]))
    /\ UNCHANGED <<visualizer, exported>>
    /\ UNCHANGED rndFrame

\* if formats: exporter.export_multiple(...); except ExportError: sys.exit(1)
ConvertExportMultiple ==
    /\ pc = "convert_export"
    /\ PyTruthy(option_dict["formats"])
    /\ steps' = Append(steps, "export_multiple")
    /\ \E r \in ExporterOutcomes :
        IF r = None
        THEN /\ exported' = SplitPieces(option_dict["formats"])
             /\ ConvertContinues("convert_summary")
        ELSE /\ exported' = exported
             /\ ConvertLeaves(SystemExit)
    /\ UNCHANGED <<visualizer, failed>>
    /\ UNCHANGED rndFrame

\* else: export_format = exporter.get_format(output_path); the comparison
\* with ExportFormat.PNG, ExportFormat.SVG, ExportFormat.PDF and the export;
\* except ExportError: sys.exit(1)
ConvertExportByExtension ==
    /\ pc = "convert_export"
    /\ ~PyTruthy(option_dict["formats"])
    /\ IF output_ext \notin SupportedExtensions
       THEN /\ steps' = Append(steps, "get_format")
            /\ exported' = exported
            /\ ConvertLeaves(SystemExit)
       ELSE IF ~NameResolves("ExportFormat")
       THEN /\ steps' = Append(steps, "get_format")
            /\ exported' = exported
            /\ ConvertLeaves(Exception("NameError", "ExportFormat", None))
       ELSE /\ steps' = steps \o <<"get_format", "export">>
            /\ \E r \in ExporterOutcomes :
                IF r = None
                THEN /\ exported' = <<FormatOfExtension(output_ext)>>
                     /\ ConvertContinues("convert_summary")
                ELSE /\ exported' = exported
                     /\ ConvertLeaves(SystemExit)
    /\ UNCHANGED <<visualizer, failed>>
    /\ UNCHANGED rndFrame

\* "Show style information": color.startswith('#') on the --color value,
\* then the marker and overlay information; convert returns None.
ConvertSummary ==
    /\ pc = "convert_summary"
    /\ IF option_dict["color"] = PyNone
       THEN ConvertLeaves(Exception("AttributeError", "startswith", None))
       ELSE /\ command_outcome' = Some(Returns(None))
            /\ pc' = "wrapper_returning"
            /\ UNCHANGED <<raised, exit_status>>
    /\ UNCHANGED <<visualizer, steps, failed, exported>>
    /\ UNCHANGED rndFrame

NextRender ==
    \/ ConvertCreateVisualizer
    \/ ConvertVisualizerRaises
    \/ ConvertCreateFigure
    \/ ConvertRenderRoute
    \/ ConvertMarkers
    \/ ConvertOverlay
    \/ ConvertExportMultiple
    \/ ConvertExportByExtension
    \/ ConvertSummary
    \/ WrapperReturn
    \/ WrapperExcept

SpecRender == InitRender /\ [][NextRender]_vars

---------------------------------------------------------------------------
(* get_config: the configuration kept in the global _config.               *)

\* Largest number of get_config calls of a run.
MaxCalls == 4

\* The arguments get_config is called with: no path, the empty string, the
\* path of a file.
ConfigPaths == {None, Some(""), Some("a.yml"), Some("b.yml")}

\* bool(config_path)
PathTruthy(config_path) == config_path # None /\ config_path # Some("")

\* Config(config_path=config_path): a new object, told apart from every
\* other by id.
Config(id, config_path) == [id |-> id, config_path |-> config_path]

\* Mutant: a path is ignored once a configuration is stored.
BuildsConfigOnlyOnce(stored, config_path) == stored = None

\* if _config is None or config_path
BuildsConfig(stored, config_path) ==
    stored = None \/ PathTruthy(config_path)

InitConfig ==
    /\ pc = "get_config"
    /\ _config = None
    /\ instances = 0
    /\ calls = << >>
    /\ ValidateIdle
    /\ OptionsIdle
    /\ ConvertIdle
    /\ FormatIdle
    /\ WrapperIdle
    /\ RenderIdle

\* get_config(config_path)
GetConfig ==
    /\ pc = "get_config"
    /\ Len(calls) < MaxCalls
    /\ \E config_path \in ConfigPaths :
        LET builds == BuildsConfig(_config, config_path)
            result == IF builds THEN Config(instances + 1, config_path)
                      ELSE _config[1]
        IN  /\ _config' = Some(result)
            /\ instances' = IF builds THEN instances + 1 ELSE instances
            /\ calls' = Append(calls, [config_path |-> config_path,
                                       returned |-> result])
    /\ pc' = pc
    /\ UNCHANGED <<valVars, optVars, cnvVars, fmtVars, wrpVars, rndVars>>

NextConfig == GetConfig

SpecConfig == InitConfig /\ [][NextConfig]_vars

---------------------------------------------------------------------------
(* Properties of the validators.                                           *)

AllValidators == {"segments", "coordinates", "timestamps"}

\* Number of occurrences of x in a list.
Count(list, x) == Cardinality({k \in 1..Len(list) : list[k] = x})

\* The findings of a list that are about segment number i, in list order.
FindingsOfSegment(list, i) ==
    LET About(f) == f.segment = i IN SelectSeq(list, About)

\* Every timestamp of the segment is absent, or every one is present and they
\* strictly increase in path order.
TimestampsValid(points) ==
    \/ \A j \in 1..Len(points) : points[j].timestamp = None
    \/ /\ \A j \in 1..Len(points) : points[j].timestamp # None
       /\ \A j \in 2..Len(points) :
              points[j - 1].timestamp[1] < points[j].timestamp[1]

FullyValid(r) ==
    /\ Len(r) >= 1
    /\ \A i \in 1..Len(r) :
        /\ Len(r[i]) >= 2
        /\ Len(r[i]) <= LargeSegmentLimit
        /\ \A j \in 1..Len(r[i]) :
            /\ r[i][j].latitude <= ExtremeLatitude
            /\ r[i][j].latitude >= -ExtremeLatitude
        /\ TimestampsValid(r[i])

\* C1: on a fully valid route (at least one segment, every segment of 2 to
\* 10000 points, every latitude within +-85, timestamps all absent or all
\* present and strictly increasing) each of the three validators returns the
\* empty list.
C1_ValidRouteNoFindings ==
    FullyValid(route) =>
        /\ "segments" \in ran => segment_issues = << >>
        /\ "coordinates" \in ran => coordinate_issues = << >>
        /\ "timestamps" \in ran => timestamp_issues = << >>

\* A fully valid route carrying timestamps, after all three validators ran.
C1_Witness ==
    /\ ran = AllValidators
    /\ FullyValid(route)
    /\ Len(route) = 1
    /\ Len(route[1]) = 2
    /\ route[1][1].timestamp # None
    /\ segment_issues = << >>
    /\ coordinate_issues = << >>
    /\ timestamp_issues = << >>

\* The timestamps present in the segment, in path order.
PresentTimestamps(points) ==
    LET Present(p) == p.timestamp # None
        kept == SelectSeq(points, Present)
    IN  [k \in 1..Len(kept) |-> kept[k].timestamp[1]]

\* Some timestamped point of the segment is earlier than a timestamped point
\* before it in the segment: the present timestamps, read in path order,
\* descend somewhere (a sequence without a descent between neighbours has
\* none between any two of its entries).
HasOutOfOrderTimestamps(points) ==
    LET ts == PresentTimestamps(points)
    IN  \E k \in 2..Len(ts) : ts[k] < ts[k - 1]

\* C2: whenever some segment has out-of-order timestamps (a timestamped point
\* earlier than a timestamped point before it in the same segment), the list
\* validate_timestamps returns holds the out-of-order finding of that segment,
\* and it holds that finding at most once per segment.
C2_OutOfOrderReported ==
    "timestamps" \in ran =>
        \A i \in 1..Len(route) :
            LET n == Count(timestamp_issues,
                           Finding("out_of_order_timestamps", i, 0, 0))
            IN  /\ n <= 1
                /\ HasOutOfOrderTimestamps(route[i]) => n = 1

\* C3: validate_segments reports every structural problem: a route without
\* segments yields exactly the finding 'Route has no segments'; otherwise, in
\* segment order, an empty segment yields exactly its 'no points' finding, a
\* one-point segment its single-point finding, a segment of more than 10000
\* points its large-segment finding, and a segment of 2 to 10000 points
\* nothing.
C3_SegmentFindings ==
    "segments" \in ran =>
        IF Len(route) = 0
        THEN segment_issues = <<Finding("no_segments", 0, 0, 0)>>
        ELSE /\ \A k \in 1..Len(segment_issues) :
                    segment_issues[k].segment \in 1..Len(route)
             /\ \A k \in 2..Len(segment_issues) :
                    segment_issues[k - 1].segment <= segment_issues[k].segment
             /\ \A i \in 1..Len(route) :
                    LET fs == FindingsOfSegment(segment_issues, i)
                        n == Len(route[i])
                    IN  /\ n = 0 => fs = <<Finding("no_points", i, 0, 0)>>
                        /\ n = 1 => fs = <<Finding("single_point", i, 0, 0)>>
                        /\ n > LargeSegmentLimit =>
                               fs = <<Finding("large_segment", i, 0, n)>>
                        /\ (n >= 2 /\ n <= LargeSegmentLimit) => fs = << >>

\* An empty segment followed by a one-point segment, both reported.
C3_Witness ==
    /\ "segments" \in ran
    /\ Len(route) = 2
    /\ Len(route[1]) = 0
    /\ Len(route[2]) = 1
    /\ Len(segment_issues) = 2

\* The positions <<segment, point>> of the points beyond +-85 degrees.
ExtremePositions(r) ==
    {pos \in UNION {{<<i, j>> : j \in 1..Len(r[i])} : i \in 1..Len(r)} :
        \/ r[pos[1]][pos[2]].latitude > ExtremeLatitude
        \/ r[pos[1]][pos[2]].latitude < -ExtremeLatitude}

\* Position a comes before position b in segment-then-point path order.
PathBefore(a, b) == a[1] < b[1] \/ (a[1] = b[1] /\ a[2] < b[2])

\* C4: validate_coordinates returns exactly one finding for each point whose
\* latitude is strictly beyond +85 or -85 degrees, in segment-then-point path
\* order, and none for a point with |latitude| <= 85; the length of the list
\* is the number of such points.
C4_CoordinateFindings ==
    "coordinates" \in ran =>
        /\ Len(coordinate_issues) = Cardinality(ExtremePositions(route))
        /\ \A k \in 1..Len(coordinate_issues) :
            LET f == coordinate_issues[k]
            IN  /\ f.kind = "extreme_latitude"
                /\ <<f.segment, f.point>> \in ExtremePositions(route)
                /\ f.value = route[f.segment][f.point].latitude
        /\ \A k \in 2..Len(coordinate_issues) :
            PathBefore(
                <<coordinate_issues[k - 1].segment, coordinate_issues[k - 1].point>>,
                <<coordinate_issues[k].segment, coordinate_issues[k].point>>)

\* Points at -86 and +86 reported, a point at exactly 85 between them not.
C4_Witness ==
    /\ "coordinates" \in ran
    /\ Len(route) = 1
    /\ Len(route[1]) = 3
    /\ route[1][1].latitude = -86
    /\ route[1][2].latitude = 85
    /\ route[1][3].latitude = 86
    /\ Len(coordinate_issues) = 2

\* Some point of the segment carries a timestamp and some point lacks one.
MixedTimestamps(points) ==
    /\ \E j \in 1..Len(points) : points[j].timestamp # None
    /\ \E j \in 1..Len(points) : points[j].timestamp = None

\* C5: a segment in which at least one point carries a timestamp and at
\* least one lacks one yields exactly one 'inconsistent timestamps' finding
\* for that segment; a segment in which no point, or every point, carries a
\* timestamp yields none.
C5_InconsistentTimestamps ==
    "timestamps" \in ran =>
        \A i \in 1..Len(route) :
            Count(timestamp_issues, Finding("inconsistent_timestamps", i, 0, 0))
                = IF MixedTimestamps(route[i]) THEN 1 ELSE 0

\* A mixed segment after a segment without timestamps: only the second is
\* reported.
C5_Witness ==
    /\ "timestamps" \in ran
    /\ Len(route) = 2
    /\ Len(route[1]) = 1
    /\ ~MixedTimestamps(route[1])
    /\ MixedTimestamps(route[2])
    /\ Count(timestamp_issues, Finding("inconsistent_timestamps", 2, 0, 0)) = 1

C7_ValidateExitStatus ==
    /\ exit_status # None <=> pc = "exited"
    /\ pc = "exited" =>
        IF route_data = None
        THEN exit_status = Some(1) /\ ran = {}
        ELSE /\ ran = AllValidators
             /\ exit_status \in {Some(0), Some(1)}
             /\ exit_status = Some(0) <=>
                    /\ segment_issues = << >>
                    /\ coordinate_issues = << >>
                    /\ timestamp_issues = << >>
    /\ pc = "validate_report" => ran = AllValidators
    /\ (pc = "validate_timestamps" /\ segment_issues \o coordinate_issues # << >>)
            => exit_status = None

\* The command exited with status 1 on a route whose only findings are
\* timestamp findings, after the first two validators found nothing.
C7_Witness ==
    /\ pc = "exited"
    /\ route_data # None
    /\ ran = AllValidators
    /\ segment_issues = << >>
    /\ coordinate_issues = << >>
    /\ timestamp_issues # << >>
    /\ exit_status = Some(1)

---------------------------------------------------------------------------
(* Properties of get_effective_options.                                    *)

\* The configuration keys mapped to CLI option k.
ConfigKeysOf(k) ==
    {config_to_cli[n][1] : n \in {m \in 1..Len(config_to_cli) :
                                    config_to_cli[m][2] = Some(k)}}

\* Every option given on the command line is in the result with its value.
CliTakesPrecedence ==
    \A k \in DOMAIN option_dict :
        option_dict[k] # PyNone =>
            k \in DOMAIN options /\ options[k] = option_dict[k]

\* No key of the result is mapped to None.
NoNoneInResult == \A k \in DOMAIN options : options[k] # PyNone

\* C8 as stated: an option given on the command line keeps its value whatever
\* the configuration holds; an option whose CLI value is None takes the
\* configuration value when the configuration defines one; no key of the
\* result is mapped to None.
C8_OptionsAsStated ==
    pc = "options_done" =>
        /\ CliTakesPrecedence
        /\ \A k \in DOMAIN option_dict, ck \in ConfigKeys :
            (option_dict[k] = PyNone /\ ck \in ConfigKeysOf(k)
                /\ ConfigGet(config, ck) # PyNone)
            => (k \in DOMAIN options /\ options[k] = ConfigGet(config, ck))
        /\ NoNoneInResult

\* C8, amended: as stated, except that a non-empty export.formats list of the
\* configuration reaches the result as one string, its items joined by
\* commas.
C8_OptionsMerged ==
    pc = "options_done" =>
        /\ CliTakesPrecedence
        /\ \A k \in DOMAIN option_dict, ck \in ConfigKeys :
            (option_dict[k] = PyNone /\ ck \in ConfigKeysOf(k)
                /\ ConfigGet(config, ck) # PyNone)
            => /\ k \in DOMAIN options
               /\ IF ck = "export.formats" /\ config[ck].v # << >>
                  THEN /\ options[k].t = "str"
                       /\ Len(options[k].v) = 2 * Len(config[ck].v) - 1
                       /\ \A n \in 1..Len(options[k].v) :
                            options[k].v[n] = IF n % 2 = 1
                                              THEN config[ck].v[(n + 1) \div 2]
                                              ELSE ","
                  ELSE options[k] = config[ck]
        /\ NoNoneInResult

\* A configured list of two formats was merged while --format was not given:
\* the result holds them as one string.
C8_WitnessFormats ==
    /\ pc = "options_done"
    /\ option_dict["formats"] = PyNone
    /\ "export.formats" \in DOMAIN config
    /\ Len(config["export.formats"].v) = 2
    /\ "formats" \in DOMAIN options

---------------------------------------------------------------------------
(* Properties of the parse stage of convert.                               *)

\* C9: the visualizer is created only when parsing returned data and the
\* route has at least one segment and at least one point; when the data is
\* missing, the track is missing or there are no coordinates convert raises
\* the matching RouteParseError; an exception of the parser that is not a
\* RouteArtError leaves convert wrapped in a RouteParseError, a RouteArtError
\* leaves it unchanged.
C9_ParseFailureBeforeRendering ==
    /\ visualizer # None =>
        /\ parse_raises = None
        /\ to_route_raises = None
        /\ route_data # None
        /\ route = route_data[1]
        /\ Len(route) >= 1
        /\ \E i \in 1..Len(route) : Len(route[i]) >= 1
        /\ raised = None
    /\ raised # None <=> pc = "convert_raised"
    /\ pc = "convert_raised" =>
        LET thrown == IF parse_raises # None THEN parse_raises
                      ELSE IF route_data = None THEN None
                      ELSE to_route_raises
        IN  IF thrown # None
            THEN IF thrown[1].type \in RouteArtErrorTypes
                 THEN raised = thrown
                 ELSE /\ raised[1].type = "RouteParseError"
                      /\ raised[1].kind = "invalid_route_file"
                      /\ raised[1].original = Some(thrown[1].type)
            ELSE IF route_data = None
            THEN raised = Some(InvalidRouteFile(None))
            ELSE IF Len(route_data[1]) = 0
            THEN raised = Some(MissingTrack)
            ELSE /\ \A i \in 1..Len(route_data[1]) : Len(route_data[1][i]) = 0
                 /\ raised = Some(NoCoordinates)
    /\ pc \in {"convert_render", "convert_rendering"} =>
        /\ raised = None
        /\ Len(route) >= 1
        /\ \E i \in 1..Len(route) : Len(route[i]) >= 1

\* convert raised the no-coordinates error on a route of two empty segments.
C9_Witness ==
    /\ pc = "convert_raised"
    /\ route_data # None
    /\ Len(route) = 2
    /\ raised = Some(NoCoordinates)
    /\ visualizer = None

---------------------------------------------------------------------------
(* Properties of the formatters.                                           *)

\* C10: format_duration returns 'Unknown' if and only if the duration is
\* absent, every present duration (a zero-length one included) being
\* rendered from its day, hour, minute and second parts; format_elevation
\* returns 'No elevation data available' when the statistics are absent;
\* neither fails.
C10_MissingDataIsNoData ==
    /\ duration_text # None =>
        /\ duration_text = Some(<<"Unknown">>) <=> duration = None
        /\ duration # None =>
                duration_text = Some(JoinParts(", ", DurationParts(duration[1])))
    /\ elevation_text # None =>
        (elevation_stats = None =>
            elevation_text = Some(<<"No elevation data available">>))
    /\ pc \in {"info_duration", "info_elevation", "info_done"}

---------------------------------------------------------------------------
(* Properties of handle_command_errors.                                    *)

\* C12: once the wrapper has ended, if the wrapped command returned, the
\* wrapper returned the same value; and if the command raised an exception
\* derived from Exception, the wrapper returned 1 and no exception left it.
C12_WrapperTurnsFailuresIntoStatus ==
    wrapper_outcome # None =>
        LET o == command_outcome[1]
            w == wrapper_outcome[1]
        IN  /\ o.kind = "returns" =>
                /\ w.kind = "returns"
                /\ w.value = o.value
                /\ w.exc = None
            /\ (o.kind = "raises" /\ o.exc[1].type \notin {"SystemExit", "KeyboardInterrupt"}) =>
                /\ w.kind = "returns"
                /\ w.value = Some(1)
                /\ w.exc = None
                /\ pc = "wrapper_done"

\* An unexpected exception (NameError) was turned into the value 1.
C12_Witness ==
    /\ pc = "wrapper_done"
    /\ command_outcome # None
    /\ command_outcome[1].kind = "raises"
    /\ command_outcome[1].exc[1].type = "NameError"
    /\ wrapper_outcome = Some(Returns(Some(1)))

---------------------------------------------------------------------------
(* Properties of the render and export stages of convert.                  *)

\* The positions of convert before the export stage.
BeforeExport ==
    {"convert_render", "convert_rendering", "convert_render_route",
     "convert_markers", "convert_overlay"}

\* The calls of the exporter.
ExportSteps == {"export_multiple", "get_format", "export"}

StepsMade == {steps[k] : k \in 1..Len(steps)}

ExportAttempted == StepsMade \cap ExportSteps # {}

RenderingErrorRaised == raised # None /\ raised[1].type = "RenderingError"

\* C13: a RenderingError leaves convert only when the creation of the
\* visualizer or figure or the rendering of the route failed, and then no
\* call of the exporter is made and nothing is exported. A failure of the
\* markers or of the overlay is caught: no RenderingError is raised, the
\* overlay is still attempted after a marker failure when it was requested
\* with a field list, the export stage is entered with no exception and no
\* exit status pending, the exporter is called, and an exception that
\* leaves convert afterwards comes from the export stage or later.
C13_OptionalFeaturesFailSoft ==
    /\ RenderingErrorRaised =>
        /\ failed = {}
        /\ steps \in {<< >>, <<"create_figure">>,
                      <<"create_figure", "render_route">>}
        /\ exported = << >>
        /\ ~ExportAttempted
    /\ failed # {} =>
        /\ ~RenderingErrorRaised
        /\ "markers" \in failed => "add_distance_markers" \in StepsMade
        /\ ("markers" \in failed /\ pc # "convert_overlay"
                /\ OptionsGet(options, "overlay") \in RenderCliValues("overlay")) =>
            "add_overlay" \in StepsMade
        /\ pc \notin BeforeExport \ {"convert_overlay"}
        /\ pc \in {"convert_overlay", "convert_export"} =>
            /\ raised = None
            /\ exit_status = None
            /\ command_outcome = None
        /\ pc \notin {"convert_overlay", "convert_export"} => ExportAttempted
        /\ raised # None =>
            raised[1].type \in {"SystemExit", "NameError", "AttributeError"}
        /\ (wrapper_outcome # None /\ raised = None) =>
            wrapper_outcome = Some(Returns(None))

\* Markers and overlay both failed, the files were exported all the same
\* and the command returned None through the wrapper.
C13_Witness ==
    /\ pc = "wrapper_done"
    /\ failed = {"markers", "overlay"}
    /\ exported = <<"png", "svg">>
    /\ raised = None
    /\ wrapper_outcome = Some(Returns(None))

\* C11: when convert was called without --format, the render stage
\* succeeded and the output file has a supported suffix, the command ends
\* having exported exactly one file, of the format of the suffix, and the
\* wrapper returns None.
C11_ExportByExtension ==
    (/\ pc \in {"wrapper_done", "wrapper_propagated"}
     /\ ~PyTruthy(option_dict["formats"])
     /\ ~RenderingErrorRaised
     /\ output_ext \in SupportedExtensions) =>
        /\ exported = <<FormatOfExtension(output_ext)>>
        /\ wrapper_outcome = Some(Returns(None))

---------------------------------------------------------------------------
(* Properties of get_config.                                               *)

\* The call was made with a non-empty config_path.
CalledWithPath(call) ==
    call.config_path # None /\ call.config_path # Some("")

\* C14: in every run of get_config calls, a call with a non-empty path
\* returns a Config built from that path that no earlier call returned; a
\* call without a path that is not the first returns the instance the call
\* before it returned; calls without a path with no call with a path between
\* them return the same instance; and _config holds what the last call
\* returned.
C14_ConfigMemoized ==
    /\ \A k \in 1..Len(calls) :
        /\ CalledWithPath(calls[k]) =>
            /\ calls[k].returned.config_path = calls[k].config_path
            /\ \A j \in 1..(k - 1) :
                calls[j].returned.id # calls[k].returned.id
        /\ (~CalledWithPath(calls[k]) /\ k > 1) =>
            calls[k].returned = calls[k - 1].returned
        /\ \A j \in 1..(k - 1) :
            (\A i \in j..k : ~CalledWithPath(calls[i])) =>
                calls[j].returned = calls[k].returned
    /\ calls # << >> => _config = Some(calls[Len(calls)].returned)
    /\ calls = << >> => _config = None

\* A call without a path, a call with a path, a call without a path: the
\* third call returns the instance the second built, not the first.
C14_Witness ==
    /\ Len(calls) = 3
    /\ ~CalledWithPath(calls[1])
    /\ calls[2].config_path = Some("a.yml")
    /\ ~CalledWithPath(calls[3])
    /\ calls[3].returned = calls[2].returned
    /\ calls[3].returned # calls[1].returned
    /\ _config = Some(calls[2].returned)

---------------------------------------------------------------------------
(* Properties of validate_timestamps: duplicates.                          *)

\* Two timestamped points of the segment carry the same timestamp: the
\* present timestamps have fewer distinct values than entries.
HasEqualTimestamps(points) ==
    LET ts == PresentTimestamps(points)
    IN  Cardinality({ts[k] : k \in 1..Len(ts)}) # Len(ts)

\* A timestamped point is strictly earlier than the timestamped point right
\* before it.
HasAdjacentDescent(points) ==
    \E j \in 2..Len(points) :
        /\ points[j].timestamp # None
        /\ points[j - 1].timestamp # None
        /\ points[j].timestamp[1] < points[j - 1].timestamp[1]

\* C15: once validate_timestamps has run, each segment has exactly one
\* 'duplicate timestamps' finding if two of its timestamped points carry the
\* same timestamp, wherever they stand in the segment, and none if its
\* present timestamps are pairwise distinct; and a segment has an
\* out-of-order finding only if a timestamped point is strictly earlier than
\* its timestamped predecessor, so equal neighbours alone yield none.
C15_DuplicateTimestamps ==
    "timestamps" \in ran =>
        \A i \in 1..Len(route) :
            /\ Count(timestamp_issues, Finding("duplicate_timestamps", i, 0, 0))
                = IF HasEqualTimestamps(route[i]) THEN 1 ELSE 0
            /\ Count(timestamp_issues, Finding("out_of_order_timestamps", i, 0, 0)) > 0
                => HasAdjacentDescent(route[i])

\* A segment of two points with the same timestamp was validated: one
\* duplicate finding and no out-of-order finding.
C15_Witness ==
    /\ "timestamps" \in ran
    /\ Len(route) = 1
    /\ Len(route[1]) = 2
    /\ route[1][1].timestamp = Some(1)
    /\ route[1][2].timestamp = Some(1)
    /\ timestamp_issues = <<Finding("duplicate_timestamps", 1, 0, 0)>>

====
